---------------------------- MODULE Spec2Model ----------------------------
(***************************************************************************)
(* A model of codealigner.py: the source sanitizer (clean_c_code), the     *)
(* function-name extractor, the interactive selection, the match scorer,   *)
(* the alignment renderer and the top-level run that chains them.          *)
(*                                                                         *)
(* Text is modelled as Python models it: a str is a sequence of            *)
(* one-character strings, so split, join, strip, startswith, slicing and   *)
(* the regular expressions are computed character by character.            *)
(***************************************************************************)
EXTENDS Integers, Sequences, FiniteSets

VARIABLES
    pc,              \* position of the component under analysis / of the run
    code,            \* clean_c_code's argument
    cleaned,         \* clean_c_code's return value
    recleaned,       \* clean_c_code's return value on its own output
    alignment_list,  \* alignment.alignment_list: pairs <<ref_instr, cand_instr>>
    percentage,      \* calculate_alignment_percentage's return value
    printed,         \* the lines display_alignment_ir has printed so far
    reference,       \* module-level `reference`
    prediction,      \* module-level `prediction`
    ref_functions,   \* module-level `ref_functions`
    cand_functions,  \* module-level `cand_functions`
    ref_func,        \* module-level `ref_func`
    cand_func,       \* module-level `cand_func`
    events           \* history of the run: what was called, with what, in order

vars == <<pc, code, cleaned, recleaned, alignment_list, percentage, printed, reference,
          prediction, ref_functions, cand_functions, ref_func, cand_func, events>>

\* Python's None.  A str is a sequence of one-character strings, so this
\* one-element sequence is equal to no str.
None == <<"None">>

\* the value of a variable not yet assigned
Unset == "Unset"

-----------------------------------------------------------------------------
(* Characters and Python str primitives                                     *)

\* the characters \s matches (among those the model uses)
Whitespace == {" ", "\t"}

\* the characters \d matches
Digits == {"0", "1", "2", "3", "4", "5", "6", "7", "8", "9"}

\* the characters \w matches
WordChars ==
    Digits \cup {"_"} \cup
    {"a", "b", "c", "d", "e", "f", "g", "h", "i", "j", "k", "l", "m",
     "n", "o", "p", "q", "r", "s", "t", "u", "v", "w", "x", "y", "z",
     "A", "B", "C", "D", "E", "F", "G", "H", "I", "J", "K", "L", "M",
     "N", "O", "P", "Q", "R", "S", "T", "U", "V", "W", "X", "Y", "Z"}

NewLine == "\n"

\* str.split(sep) for a one-character sep: the pieces between consecutive
\* separators, so always at least one piece
Split(s, sep) ==
    LET seps == {i \in 1..Len(s) : s[i] = sep}
        k == Cardinality(seps)
        \* the index of the j-th separator; 0 and Len(s) + 1 bracket the text
        At(j) == IF j = 0 THEN 0
                 ELSE IF j = k + 1 THEN Len(s) + 1
                 ELSE CHOOSE i \in seps : Cardinality({x \in seps : x < i}) = j - 1
    IN  [j \in 1..(k + 1) |-> SubSeq(s, At(j - 1) + 1, At(j) - 1)]

RECURSIVE Join(_, _)
\* sep.join(pieces)
Join(sep, pieces) ==
    IF Len(pieces) = 0 THEN <<>>
    ELSE IF Len(pieces) = 1 THEN pieces[1]
    ELSE pieces[1] \o <<sep>> \o Join(sep, Tail(pieces))

RECURSIVE SkipLeft(_, _)
\* the first index >= i of s that holds no whitespace (Len(s) + 1 if none)
SkipLeft(s, i) ==
    IF i <= Len(s) /\ s[i] \in Whitespace THEN SkipLeft(s, i + 1) ELSE i

RECURSIVE SkipRight(_, _)
\* the last index <= i of s that holds no whitespace (0 if none)
SkipRight(s, i) ==
    IF i >= 1 /\ s[i] \in Whitespace THEN SkipRight(s, i - 1) ELSE i

\* str.strip(): leading and trailing whitespace removed
Strip(s) == SubSeq(s, SkipLeft(s, 1), SkipRight(s, Len(s)))

\* str.startswith(prefix)
StartsWith(s, prefix) ==
    /\ Len(prefix) <= Len(s)
    /\ SubSeq(s, 1, Len(prefix)) = prefix

-----------------------------------------------------------------------------
(* Regular expressions: a pattern is run as a position automaton.  P is the  *)
(* set of indices the match can be at; each piece of the pattern maps it to  *)
(* the set of indices after that piece, so backtracking is accounted for.    *)

RECURSIVE RunEnd(_, _, _)
\* the index just after the longest run of characters of the class from p
RunEnd(s, cls, p) ==
    IF p <= Len(s) /\ s[p] \in cls THEN RunEnd(s, cls, p + 1) ELSE p

\* cls* : zero or more characters of the class
Star(s, cls, P) == UNION {p..RunEnd(s, cls, p) : p \in P}

\* cls+ : one or more characters of the class
Plus(s, cls, P) == UNION {(p + 1)..RunEnd(s, cls, p) : p \in P}

\* a literal string
Lit(s, lit, P) ==
    {p + Len(lit) : p \in {r \in P : /\ r + Len(lit) - 1 <= Len(s)
                                     /\ SubSeq(s, r, r + Len(lit) - 1) = lit}}

KwStatic == <<"s", "t", "a", "t", "i", "c">>
KwConst == <<"c", "o", "n", "s", "t">>

\* re.match(r'^\s*(static\s+)?(const\s+)?\w+\s+\w+\s*\[\s*\d*\s*\]\s*=', line)
MatchArrayInit(line) ==
    LET p1 == Star(line, Whitespace, {1})
        p2 == p1 \cup Plus(line, Whitespace, Lit(line, KwStatic, p1))
        p3 == p2 \cup Plus(line, Whitespace, Lit(line, KwConst, p2))
        p4 == Plus(line, WordChars, p3)
        p5 == Plus(line, Whitespace, p4)
        p6 == Plus(line, WordChars, p5)
        p7 == Star(line, Whitespace, p6)
        p8 == Lit(line, <<"[">>, p7)
        p9 == Star(line, Whitespace, p8)
        p10 == Star(line, Digits, p9)
        p11 == Star(line, Whitespace, p10)
        p12 == Lit(line, <<"]">>, p11)
        p13 == Star(line, Whitespace, p12)
        p14 == Lit(line, <<"=">>, p13)
    IN  p14 # {}

\* re.match(r'^\s*static\s+const\s+\w+\s+\w+\s*\[\s*\]', line)
MatchStaticConstArray(line) ==
    LET p1 == Star(line, Whitespace, {1})
        p2 == Plus(line, Whitespace, Lit(line, KwStatic, p1))
        p3 == Plus(line, Whitespace, Lit(line, KwConst, p2))
        p4 == Plus(line, WordChars, p3)
        p5 == Plus(line, Whitespace, p4)
        p6 == Plus(line, WordChars, p5)
        p7 == Star(line, Whitespace, p6)
        p8 == Lit(line, <<"[">>, p7)
        p9 == Star(line, Whitespace, p8)
        p10 == Lit(line, <<"]">>, p9)
    IN  p10 # {}

-----------------------------------------------------------------------------
(* clean_c_code                                                             *)

DirIfdef == <<"#", "i", "f", "d", "e", "f">>
DirIfndef == <<"#", "i", "f", "n", "d", "e", "f">>
DirElse == <<"#", "e", "l", "s", "e">>
DirEndif == <<"#", "e", "n", "d", "i", "f">>
DirHash == <<"#">>

\* stripped.startswith('#ifdef') or stripped.startswith('#ifndef')
IsOpener(line) ==
    StartsWith(Strip(line), DirIfdef) \/ StartsWith(Strip(line), DirIfndef)

\* stripped.startswith('#else')
IsElse(line) == StartsWith(Strip(line), DirElse)

\* stripped.startswith('#endif')
IsEndif(line) == StartsWith(Strip(line), DirEndif)

\* stripped.startswith('#')
IsHash(line) == StartsWith(Strip(line), DirHash)

\* skip_until_endif after the loop body has run on `line`
NextSkip(line, skip_until_endif) ==
    IF IsOpener(line) THEN TRUE
    ELSE IF IsElse(line) THEN ~skip_until_endif
    ELSE IF IsEndif(line) THEN FALSE
    ELSE skip_until_endif

\* Keeps with the opener line appended as well as starting suppression
Keeps_OpenerKept(line, skip_until_endif) ==
    IF IsOpener(line) THEN TRUE
    ELSE IF IsElse(line) THEN FALSE
    ELSE IF IsEndif(line) THEN FALSE
    ELSE IF skip_until_endif THEN FALSE
    ELSE IF IsHash(line) THEN TRUE
    ELSE IF MatchArrayInit(line) THEN FALSE
    ELSE IF MatchStaticConstArray(line) THEN FALSE
    ELSE TRUE

\* Keeps with '#' lines tested before the suppression flag
Keeps_HashBeforeSkip(line, skip_until_endif) ==
    IF IsOpener(line) THEN FALSE
    ELSE IF IsElse(line) THEN FALSE
    ELSE IF IsEndif(line) THEN FALSE
    ELSE IF IsHash(line) THEN TRUE
    ELSE IF skip_until_endif THEN FALSE
    ELSE IF MatchArrayInit(line) THEN FALSE
    ELSE IF MatchStaticConstArray(line) THEN FALSE
    ELSE TRUE

\* Keeps with an '#else' read outside suppression kept like any '#' line
Keeps_ElseKept(line, skip_until_endif) ==
    IF IsOpener(line) THEN FALSE
    ELSE IF IsElse(line) THEN ~skip_until_endif
    ELSE IF IsEndif(line) THEN FALSE
    ELSE IF skip_until_endif THEN FALSE
    ELSE IF IsHash(line) THEN TRUE
    ELSE IF MatchArrayInit(line) THEN FALSE
    ELSE IF MatchStaticConstArray(line) THEN FALSE
    ELSE TRUE

\* whether the loop body appends `line` to filtered_lines
Keeps(line, skip_until_endif) ==
    IF IsOpener(line) THEN FALSE
    ELSE IF IsElse(line) THEN FALSE
    ELSE IF IsEndif(line) THEN FALSE
    ELSE IF skip_until_endif THEN FALSE
    ELSE IF IsHash(line) THEN TRUE
    ELSE IF MatchArrayInit(line) THEN FALSE
    ELSE IF MatchStaticConstArray(line) THEN FALSE
    ELSE TRUE

RECURSIVE FilterLines(_, _, _)
\* the for loop of clean_c_code from index i on: the lines appended to
\* filtered_lines, given the value of skip_until_endif on entry
FilterLines(lines, i, skip_until_endif) ==
    IF i > Len(lines) THEN <<>>
    ELSE (IF Keeps(lines[i], skip_until_endif) THEN <<lines[i]>> ELSE <<>>)
         \o FilterLines(lines, i + 1, NextSkip(lines[i], skip_until_endif))

clean_c_code(c) == Join(NewLine, FilterLines(Split(c, NewLine), 1, FALSE))

-----------------------------------------------------------------------------
(* calculate_alignment_percentage                                           *)
(* A float result is modelled by the exact rational it rounds: <<n, d>> in  *)
(* lowest terms.  Every result is a function of the two counters alone.     *)

RECURSIVE Gcd(_, _)
Gcd(a, b) == IF b = 0 THEN a ELSE Gcd(b, a % b)

\* the rational n / d (d > 0) in lowest terms
Ratio(n, d) == <<n \div Gcd(n, d), d \div Gcd(n, d)>>

\* the float 0.0
ZeroPercent == <<0, 1>>

\* the loop body with every pair counted in the total
TallyStep_CountsEveryPair(pair, tally) ==
    [total |-> tally.total + 1,
     aligned |-> IF pair[2] # None /\ pair[1] # None
                 THEN tally.aligned + 1 ELSE tally.aligned]

\* the loop body with the two sides of the pair taken in the other order
TallyStep_SidesSwapped(pair, tally) ==
    IF pair[1] # None
    THEN [total |-> tally.total + 1,
          aligned |-> IF pair[2] # None
                      THEN tally.aligned + 1 ELSE tally.aligned]
    ELSE tally

\* the loop body on one pair <<ref_instr, cand_instr>>: the counters
\* total_candidate_instrs and aligned_candidate_instrs after it
TallyStep(pair, tally) ==
    IF pair[2] # None
    THEN [total |-> tally.total + 1,
          aligned |-> IF pair[1] # None
                      THEN tally.aligned + 1 ELSE tally.aligned]
    ELSE tally

RECURSIVE Tally(_, _, _)
\* the for loop over alignment.alignment_list from index i on
Tally(list, i, tally) ==
    IF i > Len(list) THEN tally
    ELSE Tally(list, i + 1, TallyStep(list[i], tally))

\* the result with the scaling by 100 left out
PercentageOf_NoScale(tally) ==
    IF tally.total = 0 THEN ZeroPercent
    ELSE Ratio(tally.aligned, tally.total)

\* the guard against an empty denominator and the final division
PercentageOf(tally) ==
    IF tally.total = 0 THEN ZeroPercent
    ELSE Ratio(tally.aligned * 100, tally.total)

calculate_alignment_percentage(list) ==
    PercentageOf(Tally(list, 1, [total |-> 0, aligned |-> 0]))

-----------------------------------------------------------------------------
(* display_alignment_ir                                                     *)

\* the width of the rules: "=" * 155 and "-" * 155
RuleWidth == 155

\* the width a cell is padded to: {ref_line : <79}
ColumnWidth == 79

\* the width a cell's text is cut to: ref_line[:77]
TruncateWidth == 77

\* the glyph printed for an absent side (U+274C in the source): one character
CrossMark == <<"x">>

\* c * n
Repeat(c, n) == [i \in 1..n |-> c]

\* s[:n] if len(s) > n else s
Truncate(s, n) == IF Len(s) > n THEN SubSeq(s, 1, n) ELSE s

\* format(s, ' <n'): s left-aligned in n columns, never cut
PadRight(s, n) == IF Len(s) >= n THEN s ELSE s \o Repeat(" ", n - Len(s))

\* f"{ref_line : <79} | {cand_line:<79}"
TwoColumns(left, right) ==
    PadRight(left, ColumnWidth) \o <<" ", "|", " ">> \o PadRight(right, ColumnWidth)

Separator == Repeat("-", RuleWidth)

\* what is printed before the loop, one element per output line
Header ==
    << <<>>,
       Repeat("=", RuleWidth),
       <<"I", "N", "S", "T", "R", "U", "C", "T", "I", "O", "N", "-", "L", "E", "V", "E", "L", " ", "A", "L", "I", "G", "N", "M", "E", "N", "T">>,
       Repeat("=", RuleWidth),
       TwoColumns(<<"R", "E", "F", "E", "R", "E", "N", "C", "E">>, <<"C", "A", "N", "D", "I", "D", "A", "T", "E">>),
       Separator >>

\* ref_str / cand_str: the glyph for None, str(instr) otherwise
InstrStr(instr) == IF instr = None THEN CrossMark ELSE instr

Max(a, b) == IF a >= b THEN a ELSE b

\* the i-th line of a column, or "" past its end, cut to TruncateWidth
CellLine(lines, i) ==
    Truncate(IF i <= Len(lines) THEN lines[i] ELSE <<>>, TruncateWidth)

\* the loop body with the separator printed inside the inner loop
PairBlock_SeparatorPerRow(pair) ==
    LET ref_lines == Split(InstrStr(pair[1]), NewLine)
        cand_lines == Split(InstrStr(pair[2]), NewLine)
        max_lines == Max(Len(ref_lines), Len(cand_lines))
    IN  [i \in 1..(2 * max_lines) |->
            IF i % 2 = 1
            THEN TwoColumns(CellLine(ref_lines, (i + 1) \div 2),
                            CellLine(cand_lines, (i + 1) \div 2))
            ELSE Separator]

\* the loop body on one pair: the lines it prints
PairBlock(pair) ==
    LET ref_lines == Split(InstrStr(pair[1]), NewLine)
        cand_lines == Split(InstrStr(pair[2]), NewLine)
        max_lines == Max(Len(ref_lines), Len(cand_lines))
    IN  [i \in 1..max_lines |->
            TwoColumns(CellLine(ref_lines, i), CellLine(cand_lines, i))]
        \o <<Separator>>

RECURSIVE PrintPairs(_, _)
\* the for loop over alignment.alignment_list from index i on
PrintPairs(list, i) ==
    IF i > Len(list) THEN <<>>
    ELSE PairBlock(list[i]) \o PrintPairs(list, i + 1)

\* everything display_alignment_ir prints, one element per output line
display_alignment_ir(list) == Header \o PrintPairs(list, 1)

-----------------------------------------------------------------------------
(* extract_function_names and display_function_selection                    *)
(* parse_c and prompt are collaborators: what the parser answers and what   *)
(* the user types are inputs of the actions that call them.                 *)

\* an outcome of parse_c: it raised, or it returned functions with these names
ParseRaised == [raised |-> TRUE, names |-> <<>>]
ParseReturned(names) == [raised |-> FALSE, names |-> names]

\* extract_function_names without the except clause
extract_function_names_Propagates(outcome) ==
    IF outcome.raised
    THEN [raised |-> TRUE, names |-> <<>>]
    ELSE [raised |-> FALSE, names |-> outcome.names]

\* what extract_function_names does with the parser's outcome: the try
\* branch returns the names in order, the except branch returns []
extract_function_names(outcome) ==
    IF outcome.raised
    THEN [raised |-> FALSE, names |-> <<>>]
    ELSE [raised |-> FALSE, names |-> outcome.names]

\* a validator that lets every input through
ref_validator_AcceptsAll(x, functions) == TRUE

\* ref_validator: lambda x: x in ref_functions
ref_validator(x, functions) == \E i \in 1..Len(functions) : functions[i] = x

\* cand_validator: lambda x: x in cand_functions
cand_validator(x, functions) == \E i \in 1..Len(functions) : functions[i] = x

-----------------------------------------------------------------------------
(* The sanitizer on its own: inputs and the two passes                      *)

\* '#ifdef D'
LineIfdef == <<"#", "i", "f", "d", "e", "f", " ", "D">>

\* ' #ifndef D'
LineIfndef == <<" ", "#", "i", "f", "n", "d", "e", "f", " ", "D">>

\* '#else'
LineElse == <<"#", "e", "l", "s", "e">>

\* '#endif'
LineEndif == <<"#", "e", "n", "d", "i", "f">>

\* '#define N'
LineDefine == <<"#", "d", "e", "f", "i", "n", "e", " ", "N">>

\* 'static const int t[]={1};'
LineStaticConstInit == <<"s", "t", "a", "t", "i", "c", " ", "c", "o", "n", "s", "t", " ", "i", "n", "t", " ", "t", "[", "]", "=", "{", "1", "}", ";">>

\* 'int t[N] = 1;'
LineNameSubscript == <<"i", "n", "t", " ", "t", "[", "N", "]", " ", "=", " ", "1", ";">>

\* 'int t[3] = 1;'
LineNumberSubscript == <<"i", "n", "t", " ", "t", "[", "3", "]", " ", "=", " ", "1", ";">>

\* 'static const int t[];'
LineStaticConstDecl == <<"s", "t", "a", "t", "i", "c", " ", "c", "o", "n", "s", "t", " ", "i", "n", "t", " ", "t", "[", "]", ";">>

\* 'int f(){}'
LineFunction == <<"i", "n", "t", " ", "f", "(", ")", "{", "}">>

\* the lines an input text is made of
SourceLines ==
    {LineIfdef, LineIfndef, LineElse, LineEndif, LineDefine,
     LineStaticConstInit, LineNameSubscript, LineNumberSubscript,
     LineStaticConstDecl, LineFunction}

\* the longest input text, in lines
MaxLines == 4

\* all sequences over S of length lo..hi
SeqsOf(S, lo, hi) == UNION {[1..n -> S] : n \in lo..hi}

\* the input texts: 1..MaxLines lines joined by newlines
SourceTexts == {Join(NewLine, ls) : ls \in SeqsOf(SourceLines, 1, MaxLines)}

\* the variables the sanitizer runs do not use
IdleForClean ==
    /\ alignment_list = <<>>
    /\ percentage = Unset
    /\ printed = <<>>
    /\ reference = Unset
    /\ prediction = Unset
    /\ ref_functions = Unset
    /\ cand_functions = Unset
    /\ ref_func = Unset
    /\ cand_func = Unset
    /\ events = <<>>

InitClean ==
    /\ pc = "clean_start"
    /\ code \in SourceTexts
    /\ cleaned = Unset
    /\ recleaned = Unset
    /\ IdleForClean

\* cleaned = clean_c_code(code)
Sanitize ==
    /\ pc = "clean_start"
    /\ cleaned' = clean_c_code(code)
    /\ pc' = "cleaned"
    /\ UNCHANGED <<code, recleaned, alignment_list, percentage, printed,
                   reference, prediction, ref_functions, cand_functions,
                   ref_func, cand_func, events>>

\* the output is sanitized again: recleaned = clean_c_code(cleaned)
Resanitize ==
    /\ pc = "cleaned"
    /\ recleaned' = clean_c_code(cleaned)
    /\ pc' = "recleaned"
    /\ UNCHANGED <<code, cleaned, alignment_list, percentage, printed,
                   reference, prediction, ref_functions, cand_functions,
                   ref_func, cand_func, events>>

NextClean == Sanitize \/ Resanitize

SpecClean == InitClean /\ [][NextClean]_vars

-----------------------------------------------------------------------------
(* Properties of the sanitizer                                              *)

\* the elements of a sequence
Range(q) == {q[i] : i \in 1..Len(q)}

\* the lines of the input and of the two outputs
InputLines == Split(code, NewLine)
OutputLines == Split(cleaned, NewLine)

RECURSIVE SkipAt(_, _)
\* the value of skip_until_endif when line i is read
SkipAt(lines, i) ==
    IF i = 1 THEN FALSE ELSE NextSkip(lines[i - 1], SkipAt(lines, i - 1))

IsConditional(line) == IsOpener(line) \/ IsElse(line) \/ IsEndif(line)

RECURSIVE LinesAt(_, _, _)
\* the subsequence of lines at the indices in I, from index i on
LinesAt(lines, I, i) ==
    IF i > Len(lines) THEN <<>>
    ELSE (IF i \in I THEN <<lines[i]>> ELSE <<>>) \o LinesAt(lines, I, i + 1)

\* C3: clean_c_code(clean_c_code(x)) = clean_c_code(x) for every input x.
C3_Idempotent == pc = "recleaned" => recleaned = cleaned

\* C3's case: a first pass that removed lines, met a nested or repeated
\* directive, and left something for the second pass to read
C3_Witness ==
    /\ pc = "recleaned"
    /\ cleaned # code
    /\ cleaned # <<>>
    /\ \E i \in 1..Len(InputLines) :
          IsConditional(InputLines[i]) /\ SkipAt(InputLines, i)
    /\ \E i \in 1..Len(InputLines) : IsElse(InputLines[i])

RECURSIVE NonNestedBlocks(_, _, _)
\* the conditional directives from index i on form non-nested
\* opener ... #endif blocks without #else (open: inside a block at i)
NonNestedBlocks(lines, i, open) ==
    IF i > Len(lines) THEN ~open
    ELSE IF IsOpener(lines[i]) THEN ~open /\ NonNestedBlocks(lines, i + 1, TRUE)
    ELSE IF IsEndif(lines[i]) THEN open /\ NonNestedBlocks(lines, i + 1, FALSE)
    ELSE IF IsElse(lines[i]) THEN FALSE
    ELSE NonNestedBlocks(lines, i + 1, open)

\* line i lies inside a block: an opener precedes it with no #endif between
InsideBlock(lines, i) ==
    \E j \in 1..(i - 1) :
        IsOpener(lines[j]) /\ \A k \in (j + 1)..(i - 1) : ~IsEndif(lines[k])

\* the indices of the lines outside the blocks (directive lines excluded)
OutsideBlocks(lines) ==
    {i \in 1..Len(lines) : ~IsConditional(lines[i]) /\ ~InsideBlock(lines, i)}

\* a line the two array rules drop
IsArrayDeclaration(line) ==
    ~IsHash(line) /\ (MatchArrayInit(line) \/ MatchStaticConstArray(line))

\* C4 as stated: with non-nested blocks and no #else, the output is exactly
\* the lines outside the blocks (everything inside, and the directives, gone).
C4_KeepsAllOutside ==
    (pc = "cleaned" /\ NonNestedBlocks(InputLines, 1, FALSE)) =>
        cleaned = Join(NewLine, LinesAt(InputLines, OutsideBlocks(InputLines), 1))

\* C4 amended: with non-nested blocks and no #else, the output is exactly
\* the lines outside the blocks that are not array declarations.
C4_KeepsOutsideExceptArrays ==
    (pc = "cleaned" /\ NonNestedBlocks(InputLines, 1, FALSE)) =>
        cleaned = Join(NewLine, LinesAt(InputLines,
                     {i \in OutsideBlocks(InputLines) :
                         ~IsArrayDeclaration(InputLines[i])}, 1))

\* C4's case: '#ifdef D / #define N / #endif / int f(){}' yields 'int f(){}'
C4_Witness ==
    /\ pc = "cleaned"
    /\ InputLines = <<LineIfdef, LineDefine, LineEndif, LineFunction>>
    /\ NonNestedBlocks(InputLines, 1, FALSE)
    /\ cleaned = LineFunction

\* the characters of a subscript: nothing, a number or a name
SubscriptChars == WordChars \cup Whitespace

\* optional static, optional const, a type word, an identifier, a subscript
\* [...] with any content, then '='
ArrayInitForm(line) ==
    LET p1 == Star(line, Whitespace, {1})
        p2 == p1 \cup Plus(line, Whitespace, Lit(line, KwStatic, p1))
        p3 == p2 \cup Plus(line, Whitespace, Lit(line, KwConst, p2))
        p4 == Plus(line, WordChars, p3)
        p5 == Plus(line, Whitespace, p4)
        p6 == Plus(line, WordChars, p5)
        p7 == Star(line, Whitespace, p6)
        p8 == Lit(line, <<"[">>, p7)
        p9 == Star(line, SubscriptChars, p8)
        p10 == Lit(line, <<"]">>, p9)
        p11 == Star(line, Whitespace, p10)
        p12 == Lit(line, <<"=">>, p11)
    IN  p12 # {}

\* C5: a line of the array-initializer form, whatever its subscript holds
\* (nothing, a number, a name), read outside a suppressed region, is not in
\* the output.
C5_ArrayInitDropped ==
    pc = "cleaned" =>
        \A i \in 1..Len(InputLines) :
            (ArrayInitForm(InputLines[i]) /\ ~SkipAt(InputLines, i)) =>
                InputLines[i] \notin Range(OutputLines)

\* C6: no line of the output starts, after trimming, with #ifdef, #ifndef,
\* #else or #endif.
C6_NoConditionalInOutput ==
    pc = "cleaned" => \A line \in Range(OutputLines) : ~IsConditional(line)

\* C6's case: an #else read with suppression off, another read with it on,
\* and an output that is not empty
C6_Witness ==
    /\ pc = "cleaned"
    /\ cleaned # <<>>
    /\ \E i, j \in 1..Len(InputLines) :
          /\ IsElse(InputLines[i]) /\ ~SkipAt(InputLines, i)
          /\ IsElse(InputLines[j]) /\ SkipAt(InputLines, j)

-----------------------------------------------------------------------------
(* The scorer on its own                                                    *)

\* the instructions of the reference and of the candidate function
RefInstrs == {<<"A">>, <<"B">>}
CandInstrs == {<<"X">>, <<"Y">>}

\* what the alignment engine can put in the list, the all-absent pair included
ScorePairs == (RefInstrs \cup {None}) \X (CandInstrs \cup {None})

AbsentPair == <<None, None>>

\* the longest alignment list scored
MaxPairs == 4

InsertAt(q, i, x) == SubSeq(q, 1, i - 1) \o <<x>> \o SubSeq(q, i, Len(q))
RemoveAt(q, i) == SubSeq(q, 1, i - 1) \o SubSeq(q, i + 1, Len(q))

InitScore ==
    /\ pc = "score_start"
    /\ alignment_list \in SeqsOf(ScorePairs, 0, MaxPairs)
    /\ percentage = Unset
    /\ code = Unset
    /\ cleaned = Unset
    /\ recleaned = Unset
    /\ printed = <<>>
    /\ reference = Unset
    /\ prediction = Unset
    /\ ref_functions = Unset
    /\ cand_functions = Unset
    /\ ref_func = Unset
    /\ cand_func = Unset
    /\ events = <<>>

\* alignment_percentage = calculate_alignment_percentage(alignment)
Score ==
    /\ pc = "score_start"
    /\ percentage' = calculate_alignment_percentage(alignment_list)
    /\ pc' = "scored"
    /\ UNCHANGED <<code, cleaned, recleaned, alignment_list, printed,
                   reference, prediction, ref_functions, cand_functions,
                   ref_func, cand_func, events>>

\* the same alignment with one more all-absent pair somewhere, scored
ScoreWithAbsentPairInserted ==
    /\ pc \in {"scored", "rescored"}
    /\ Len(alignment_list) < MaxPairs
    /\ \E i \in 1..(Len(alignment_list) + 1) :
          alignment_list' = InsertAt(alignment_list, i, AbsentPair)
    /\ percentage' = calculate_alignment_percentage(alignment_list')
    /\ pc' = "rescored"
    /\ UNCHANGED <<code, cleaned, recleaned, printed, reference, prediction,
                   ref_functions, cand_functions, ref_func, cand_func, events>>

\* the same alignment with one all-absent pair taken out, scored
ScoreWithAbsentPairRemoved ==
    /\ pc \in {"scored", "rescored"}
    /\ \E i \in 1..Len(alignment_list) :
          /\ alignment_list[i] = AbsentPair
          /\ alignment_list' = RemoveAt(alignment_list, i)
    /\ percentage' = calculate_alignment_percentage(alignment_list')
    /\ pc' = "rescored"
    /\ UNCHANGED <<code, cleaned, recleaned, printed, reference, prediction,
                   ref_functions, cand_functions, ref_func, cand_func, events>>

NextScore ==
    Score \/ ScoreWithAbsentPairInserted \/ ScoreWithAbsentPairRemoved

SpecScore == InitScore /\ [][NextScore]_vars

\* total_candidate: the pairs whose candidate side is present
TotalCandidate(list) ==
    Cardinality({i \in 1..Len(list) : list[i][2] # None})

\* aligned_candidate: the pairs with both sides present
AlignedCandidate(list) ==
    Cardinality({i \in 1..Len(list) : list[i][2] # None /\ list[i][1] # None})

Scored == pc \in {"scored", "rescored"}

\* C1: the result is aligned_candidate / total_candidate * 100 when
\* total_candidate > 0 and 0.0 otherwise; reference-only pairs count nowhere.
C1_ScoreFormula ==
    Scored =>
        percentage =
            IF TotalCandidate(alignment_list) > 0
            THEN Ratio(AlignedCandidate(alignment_list) * 100,
                       TotalCandidate(alignment_list))
            ELSE ZeroPercent

\* C1's case: [(A,X), (B,absent), (absent,Y)] scores 50
C1_Witness ==
    /\ pc = "scored"
    /\ alignment_list =
          << << <<"A">>, <<"X">> >>, << <<"B">>, None >>, << None, <<"Y">> >> >>
    /\ percentage = <<50, 1>>

BothPresent(list) ==
    \A i \in 1..Len(list) : list[i][1] # None /\ list[i][2] # None

\* C2 as stated: every pair two-sided, the list with no pairs included,
\* scores 100.0.
C2_AllAlignedIs100 ==
    (Scored /\ BothPresent(alignment_list)) => percentage = <<100, 1>>

\* C2 amended: a list with at least one pair, every pair two-sided, scores
\* 100.0 (the list with no pairs scores 0.0).
C2_NonEmptyAllAlignedIs100 ==
    /\ (Scored /\ BothPresent(alignment_list) /\ alignment_list # <<>>) =>
           percentage = <<100, 1>>
    /\ (Scored /\ alignment_list = <<>>) => percentage = ZeroPercent

\* C2's case: several two-sided pairs, scored
C2_Witness ==
    /\ pc = "scored"
    /\ Len(alignment_list) >= 2
    /\ BothPresent(alignment_list)
    /\ percentage = <<100, 1>>

\* C7: scoring a list with one more, or one fewer, all-absent pair at any
\* position returns the percentage returned before.
C7_AbsentPairZeroWeight == [][Scored => percentage' = percentage]_vars

\* C7's case: a list holding all-absent pairs among others was scored again
\* after an insertion or a removal, with a result strictly between 0 and 100
C7_Witness ==
    /\ pc = "rescored"
    /\ \E i \in 1..Len(alignment_list) : alignment_list[i] = AbsentPair
    /\ Len(alignment_list) = MaxPairs
    /\ percentage = <<50, 1>>

-----------------------------------------------------------------------------
(* The renderer on its own                                                  *)

\* str(instr) of the instructions rendered: one line, two lines, three
\* lines, and one line too long for a cell
TextOneLine == <<"a">>
TextTwoLines == <<"a", "\n", "b">>
TextThreeLines == <<"a", "\n", "\n", "c">>
TextLongLine == Repeat("w", TruncateWidth + 1)

RenderInstrs == {TextOneLine, TextTwoLines, TextThreeLines, TextLongLine}

RenderPairs == (RenderInstrs \cup {None}) \X (RenderInstrs \cup {None})

\* the longest alignment list rendered
MaxRenderPairs == 2

InitRender ==
    /\ pc = "render_start"
    /\ alignment_list \in SeqsOf(RenderPairs, 0, MaxRenderPairs)
    /\ printed = <<>>
    /\ percentage = Unset
    /\ code = Unset
    /\ cleaned = Unset
    /\ recleaned = Unset
    /\ reference = Unset
    /\ prediction = Unset
    /\ ref_functions = Unset
    /\ cand_functions = Unset
    /\ ref_func = Unset
    /\ cand_func = Unset
    /\ events = <<>>

\* display_alignment_ir(alignment)
Display ==
    /\ pc = "render_start"
    /\ printed' = display_alignment_ir(alignment_list)
    /\ pc' = "rendered"
    /\ UNCHANGED <<code, cleaned, recleaned, alignment_list, percentage,
                   reference, prediction, ref_functions, cand_functions,
                   ref_func, cand_func, events>>

NextRender == Display

SpecRender == InitRender /\ [][NextRender]_vars

\* the number of lines of a text: one more than its line breaks
LineCount(text) == 1 + Cardinality({i \in 1..Len(text) : text[i] = NewLine})

\* m and n of a pair, an absent side counting as the one-line glyph
RefLineCount(pair) == IF pair[1] = None THEN 1 ELSE LineCount(pair[1])
CandLineCount(pair) == IF pair[2] = None THEN 1 ELSE LineCount(pair[2])
BlockRows(pair) == Max(RefLineCount(pair), CandLineCount(pair))

RECURSIVE BlockStart(_, _)
\* the index in the printed lines where the block of pair i starts
BlockStart(list, i) ==
    IF i = 1 THEN Len(Header) + 1
    ELSE BlockStart(list, i - 1) + BlockRows(list[i - 1]) + 1

\* a two-column row: two cells of ColumnWidth around " | "
IsRow(line) ==
    /\ Len(line) = 2 * ColumnWidth + 3
    /\ SubSeq(line, ColumnWidth + 1, ColumnWidth + 3) = <<" ", "|", " ">>

LeftCell(line) == SubSeq(line, 1, ColumnWidth)
RightCell(line) == SubSeq(line, ColumnWidth + 4, 2 * ColumnWidth + 3)
BlankCell == Repeat(" ", ColumnWidth)

\* C9: each pair prints max(m, n) two-column rows, the shorter side padded
\* with blank cells, then one separator; k pairs give k separators after
\* the header and nothing else.
C9_RowsAndSeparator ==
    pc = "rendered" =>
        /\ SubSeq(printed, 1, Len(Header)) = Header
        /\ \A i \in 1..Len(alignment_list) :
              LET start == BlockStart(alignment_list, i)
                  rows == BlockRows(alignment_list[i])
              IN  /\ start + rows <= Len(printed)
                  /\ \A r \in 1..rows :
                        /\ IsRow(printed[start + r - 1])
                        /\ r > RefLineCount(alignment_list[i]) =>
                              LeftCell(printed[start + r - 1]) = BlankCell
                        /\ r > CandLineCount(alignment_list[i]) =>
                              RightCell(printed[start + r - 1]) = BlankCell
                  /\ printed[start + rows] = Separator
        /\ Len(printed) = BlockStart(alignment_list, Len(alignment_list) + 1) - 1
        /\ Cardinality({j \in (Len(Header) + 1)..Len(printed) :
                          printed[j] = Separator}) = Len(alignment_list)

\* C9's case: a one-line side beside a three-line side, and an absent side
\* beside a two-line side, rendered
C9_Witness ==
    /\ pc = "rendered"
    /\ alignment_list = << <<TextOneLine, TextThreeLines>>, <<TextTwoLines, None>> >>
    /\ Len(printed) = Len(Header) + 7

-----------------------------------------------------------------------------
(* The run: the module-level code, from reading the files to saving         *)

\* the contents the two files can have
RefFileTexts ==
    {Join(NewLine, <<LineIfdef, LineNameSubscript, LineEndif, LineFunction>>),
     Join(NewLine, <<LineStaticConstInit, LineFunction>>)}
CandFileTexts ==
    {Join(NewLine, <<LineDefine, LineFunction>>),
     Join(NewLine, <<LineIfndef, LineElse, LineFunction>>)}

\* the function names the parser can report, and what the user can type
FunctionNames == {<<"f">>, <<"g">>}
TypedInputs == FunctionNames \cup {<<"h">>}

\* the most functions the parser reports for one file
MaxFunctions == 2

ParseOutcomes ==
    {ParseRaised} \cup {ParseReturned(ns) : ns \in SeqsOf(FunctionNames, 0, MaxFunctions)}

\* the alignment lists the engine can return
EngineResults ==
    {<<>>,
     << <<TextOneLine, TextTwoLines>> >>,
     << <<TextOneLine, TextOneLine>>, <<TextTwoLines, None>>, <<None, TextOneLine>> >>,
     << <<None, None>>, <<TextOneLine, TextOneLine>> >>}

\* events' = events with one more entry
Log(op, args) == events' = Append(events, [op |-> op, args |-> args])

Init ==
    /\ pc = "read_ref"
    /\ code = Unset
    /\ cleaned = Unset
    /\ recleaned = Unset
    /\ alignment_list = <<>>
    /\ percentage = Unset
    /\ printed = <<>>
    /\ reference = Unset
    /\ prediction = Unset
    /\ ref_functions = Unset
    /\ cand_functions = Unset
    /\ ref_func = Unset
    /\ cand_func = Unset
    /\ events = <<>>

\* with open(args.ref) ...: reference = f.read()
ReadReference ==
    /\ pc = "read_ref"
    /\ \E text \in RefFileTexts :
          /\ reference' = text
          /\ Log("read_ref", <<text>>)
    /\ pc' = "read_pred"
    /\ UNCHANGED <<code, cleaned, recleaned, alignment_list, percentage,
                   printed, prediction, ref_functions, cand_functions,
                   ref_func, cand_func>>

\* with open(args.pred) ...: prediction = f.read()
ReadPrediction ==
    /\ pc = "read_pred"
    /\ \E text \in CandFileTexts :
          /\ prediction' = text
          /\ Log("read_pred", <<text>>)
    /\ pc' = "clean_pred"
    /\ UNCHANGED <<code, cleaned, recleaned, alignment_list, percentage,
                   printed, reference, ref_functions, cand_functions,
                   ref_func, cand_func>>

\* except FileNotFoundError: ... exit(1), for either file
FileMissing ==
    /\ pc \in {"read_ref", "read_pred"}
    /\ Log("exit", <<pc>>)
    /\ pc' = "exited"
    /\ UNCHANGED <<code, cleaned, recleaned, alignment_list, percentage,
                   printed, reference, prediction, ref_functions,
                   cand_functions, ref_func, cand_func>>

\* prediction = clean_c_code(prediction)
CleanPrediction ==
    /\ pc = "clean_pred"
    /\ prediction' = clean_c_code(prediction)
    /\ Log("clean_pred", <<prediction, prediction'>>)
    /\ pc' = "clean_ref"
    /\ UNCHANGED <<code, cleaned, recleaned, alignment_list, percentage,
                   printed, reference, ref_functions, cand_functions,
                   ref_func, cand_func>>

\* reference = clean_c_code(reference)
CleanReference ==
    /\ pc = "clean_ref"
    /\ reference' = clean_c_code(reference)
    /\ Log("clean_ref", <<reference, reference'>>)
    /\ pc' = "extract_ref"
    /\ UNCHANGED <<code, cleaned, recleaned, alignment_list, percentage,
                   printed, prediction, ref_functions, cand_functions,
                   ref_func, cand_func>>

\* ref_functions = extract_function_names(reference)
ExtractReference ==
    /\ pc = "extract_ref"
    /\ \E outcome \in ParseOutcomes :
          LET result == extract_function_names(outcome)
          IN  /\ Log("parse_ref", <<reference, outcome>>)
              /\ IF result.raised
                 THEN pc' = "crashed" /\ UNCHANGED ref_functions
                 ELSE pc' = "extract_cand" /\ ref_functions' = result.names
    /\ UNCHANGED <<code, cleaned, recleaned, alignment_list, percentage,
                   printed, reference, prediction, cand_functions, ref_func,
                   cand_func>>

\* cand_functions = extract_function_names(prediction)
ExtractCandidate ==
    /\ pc = "extract_cand"
    /\ \E outcome \in ParseOutcomes :
          LET result == extract_function_names(outcome)
          IN  /\ Log("parse_cand", <<prediction, outcome>>)
              /\ IF result.raised
                 THEN pc' = "crashed" /\ UNCHANGED cand_functions
                 ELSE pc' = "report" /\ cand_functions' = result.names
    /\ UNCHANGED <<code, cleaned, recleaned, alignment_list, percentage,
                   printed, reference, prediction, ref_functions, ref_func,
                   cand_func>>

\* print(f"Found {len(ref_functions)} ..."); print(f"Found {len(cand_functions)} ...")
\* and the table display_function_selection prints before its first prompt
ReportCounts ==
    /\ pc = "report"
    /\ Log("report", <<Len(ref_functions), Len(cand_functions)>>)
    /\ pc' = "select_ref"
    /\ UNCHANGED <<code, cleaned, recleaned, alignment_list, percentage,
                   printed, reference, prediction, ref_functions,
                   cand_functions, ref_func, cand_func>>

\* the prompt is open and an input fails the validator: the error message is
\* shown and the prompt stays open (repeated rejections are logged once)
RejectInput ==
    /\ pc \in {"select_ref", "select_cand"}
    /\ \E x \in TypedInputs :
          IF pc = "select_ref"
          THEN ~ref_validator(x, ref_functions)
          ELSE ~cand_validator(x, cand_functions)
    /\ events[Len(events)].op # "rejected"
    /\ Log("rejected", <<pc>>)
    /\ UNCHANGED <<pc, code, cleaned, recleaned, alignment_list, percentage,
                   printed, reference, prediction, ref_functions,
                   cand_functions, ref_func, cand_func>>

\* ref_function = prompt(..., validator=ref_validator)
SelectReference ==
    /\ pc = "select_ref"
    /\ \E x \in TypedInputs :
          /\ ref_validator(x, ref_functions)
          /\ ref_func' = x
          /\ Log("select_ref", <<x>>)
    /\ pc' = "select_cand"
    /\ UNCHANGED <<code, cleaned, recleaned, alignment_list, percentage,
                   printed, reference, prediction, ref_functions,
                   cand_functions, cand_func>>

\* cand_function = prompt(..., validator=cand_validator)
SelectCandidate ==
    /\ pc = "select_cand"
    /\ \E x \in TypedInputs :
          /\ cand_validator(x, cand_functions)
          /\ cand_func' = x
          /\ Log("select_cand", <<x>>)
    /\ pc' = "align"
    /\ UNCHANGED <<code, cleaned, recleaned, alignment_list, percentage,
                   printed, reference, prediction, ref_functions,
                   cand_functions, ref_func>>

\* the user ends a prompt (Ctrl-C, Ctrl-D): prompt raises and the run ends
AbortPrompt ==
    /\ pc \in {"select_ref", "select_cand", "save"}
    /\ Log("abort", <<pc>>)
    /\ pc' = "aborted"
    /\ UNCHANGED <<code, cleaned, recleaned, alignment_list, percentage,
                   printed, reference, prediction, ref_functions,
                   cand_functions, ref_func, cand_func>>

\* the arguments of align(prediction, reference, 'c', partial_loops=True,
\* candidate_function=cand_func, reference_function=ref_func)
AlignArgs == <<prediction, reference, <<"c">>, TRUE, cand_func, ref_func>>

\* alignment = align(...): the engine returns an alignment
Align ==
    /\ pc = "align"
    /\ \E result \in EngineResults : alignment_list' = result
    /\ Log("align", AlignArgs)
    /\ pc' = "display"
    /\ UNCHANGED <<code, cleaned, recleaned, percentage, printed, reference,
                   prediction, ref_functions, cand_functions, ref_func,
                   cand_func>>

\* alignment = align(...): the engine raises, uncaught
AlignFails ==
    /\ pc = "align"
    /\ Log("align", AlignArgs)
    /\ pc' = "crashed"
    /\ UNCHANGED <<code, cleaned, recleaned, alignment_list, percentage,
                   printed, reference, prediction, ref_functions,
                   cand_functions, ref_func, cand_func>>

\* display_alignment_ir(alignment)
DisplayAlignment ==
    /\ pc = "display"
    /\ printed' = display_alignment_ir(alignment_list)
    /\ Log("display", <<Len(alignment_list)>>)
    /\ pc' = "score"
    /\ UNCHANGED <<code, cleaned, recleaned, alignment_list, percentage,
                   reference, prediction, ref_functions, cand_functions,
                   ref_func, cand_func>>

\* alignment_percentage = calculate_alignment_percentage(alignment)
ScoreAlignment ==
    /\ pc = "score"
    /\ percentage' = calculate_alignment_percentage(alignment_list)
    /\ Log("score", percentage')
    /\ pc' = "save"
    /\ UNCHANGED <<code, cleaned, recleaned, alignment_list, printed,
                   reference, prediction, ref_functions, cand_functions,
                   ref_func, cand_func>>

\* save_alignment_result: the answer is yes/y (the file is written) or not
SaveResult ==
    /\ pc = "save"
    /\ \E save_choice \in {"yes", "no"} :
          Log(IF save_choice = "yes" THEN "saved" ELSE "not_saved", <<ref_func>>)
    /\ pc' = "done"
    /\ UNCHANGED <<code, cleaned, recleaned, alignment_list, percentage,
                   printed, reference, prediction, ref_functions,
                   cand_functions, ref_func, cand_func>>

Next ==
    \/ ReadReference
    \/ ReadPrediction
    \/ FileMissing
    \/ CleanPrediction
    \/ CleanReference
    \/ ExtractReference
    \/ ExtractCandidate
    \/ ReportCounts
    \/ RejectInput
    \/ SelectReference
    \/ SelectCandidate
    \/ AbortPrompt
    \/ Align
    \/ AlignFails
    \/ DisplayAlignment
    \/ ScoreAlignment
    \/ SaveResult

Spec == Init /\ [][Next]_vars

-----------------------------------------------------------------------------
(* Properties of the run                                                    *)

\* the positions in the history of the calls named op
EventsOf(op) == {k \in 1..Len(events) : events[k].op = op}

\* the parser's outcome logged at position k
OutcomeAt(k) == events[k].args[2]

\* what extract_function_names has to return for a parser outcome
ExpectedNames(outcome) == IF outcome.raised THEN <<>> ELSE outcome.names

\* C8, in every state: nothing but the engine ends the run with an uncaught
\* error, and each extracted list is [] when the parser raised and the
\* parser's names in the parser's order when it returned.
C8_ExtractedLists ==
    /\ pc = "crashed" => events[Len(events)].op = "align"
    /\ \A k \in EventsOf("parse_ref") : ref_functions = ExpectedNames(OutcomeAt(k))
    /\ \A k \in EventsOf("parse_cand") : cand_functions = ExpectedNames(OutcomeAt(k))

\* C8, in every step: whatever the parser does, the run goes from the first
\* extraction to the second, to the report of the counts, to the selection.
C8_RunGoesOn ==
    /\ pc = "extract_ref" => pc' = "extract_cand"
    /\ pc = "extract_cand" => pc' = "report"
    /\ pc = "report" => pc' = "select_ref"

\* C8: when the parser raises, extract_function_names returns [] and raises
\* nothing, and the run goes on to the counts and the selection; when the
\* parser succeeds, it returns the parser's names in the parser's order.
C8_ParseFailureSwallowed == [](C8_ExtractedLists) /\ [][C8_RunGoesOn]_vars

\* C8's case: the parser raised on the reference, returned two names for the
\* candidate, the counts were reported and the selection is open
C8_Witness ==
    /\ pc = "select_ref"
    /\ \E k \in EventsOf("parse_ref") : OutcomeAt(k).raised
    /\ \E k \in EventsOf("parse_cand") :
          ~OutcomeAt(k).raised /\ Len(OutcomeAt(k).names) = 2
    /\ events[Len(events)] = [op |-> "report", args |-> <<0, 2>>]

\* C10: the engine is called at most once, after both sanitizations and both
\* selections, on the sanitized texts, with a reference name from the list
\* extracted from the sanitized reference and a candidate name from the list
\* extracted from the sanitized candidate; with an empty list the selection
\* never completes and engine, renderer and scorer are never reached.
C10_EngineAfterValidSelection ==
    /\ Cardinality(EventsOf("align")) <= 1
    /\ \A k \in EventsOf("align") :
          /\ \E i \in EventsOf("clean_pred") :
                /\ i < k
                /\ events[k].args[1] = events[i].args[2]
                /\ \E j \in EventsOf("parse_cand") :
                      events[j].args[1] = events[i].args[2] /\ j < k
          /\ \E i \in EventsOf("clean_ref") :
                /\ i < k
                /\ events[k].args[2] = events[i].args[2]
                /\ \E j \in EventsOf("parse_ref") :
                      events[j].args[1] = events[i].args[2] /\ j < k
          /\ \E i \in EventsOf("select_ref") : i < k
          /\ \E i \in EventsOf("select_cand") : i < k
          /\ events[k].args[6] \in Range(ref_functions)
          /\ events[k].args[5] \in Range(cand_functions)
    /\ (EventsOf("parse_cand") # {}
           /\ (ref_functions = <<>> \/ cand_functions = <<>>)) =>
          /\ EventsOf("select_cand") = {}
          /\ EventsOf("align") = {}
          /\ EventsOf("display") = {}
          /\ EventsOf("score") = {}
          /\ pc \in {"report", "select_ref", "select_cand", "aborted"}

\* C10's case: an input was rejected, both selections completed, the engine
\* was called and the run finished
C10_Witness ==
    /\ pc = "done"
    /\ EventsOf("rejected") # {}
    /\ EventsOf("align") # {}
    /\ Len(ref_functions) = 2

=============================================================================
